---- MODULE Spec2Model ----
(***************************************************************************)
(* A model of sync.RWMutex as found in src/unnamed/part_001.               *)
(*                                                                         *)
(* Every atomic operation of the source (an atomic.Int32 Add, Load or      *)
(* CompareAndSwap, a semaphore acquire or release, a Mutex operation) is   *)
(* one action of one thread; pc[t] names the statement thread t executes   *)
(* next.  The race-detector hooks (race.Enabled is a build constant that   *)
(* is false in a normal build) touch no field of the lock and are left out.*)
(***************************************************************************)
EXTENDS Integers, FiniteSets

\* Number of threads (goroutines) using the one lock.
NThreads == 3

\* const rwmutexMaxReaders = 1 << 30
rwmutexMaxReaders == 1073741824

\* readerCount and readerWait are atomic.Int32: the largest and the smallest
\* value of a 32-bit signed integer.
MaxInt32 == 2147483647
MinInt32 == -MaxInt32 - 1

\* atomic.Int32.Add and Go's int32 "+": the sum, wrapped round to 32 bits
\* when it leaves [MinInt32, MaxInt32].
Add32(a, b) ==
    IF b > 0 /\ a > MaxInt32 - b
      THEN (a + MinInt32) + (b + MinInt32)
      ELSE IF b < 0 /\ a < MinInt32 - b
             THEN ((a + MaxInt32) + 1) + ((b + MaxInt32) + 1)
             ELSE a + b

Threads == 1..NThreads

VARIABLES
    w,            \* rw.w: 0 when unlocked, else the thread that locked it
    writerSem,    \* rw.writerSem: permits available
    readerSem,    \* rw.readerSem: permits available
    readerCount,  \* rw.readerCount
    readerWait,   \* rw.readerWait
    pc,           \* pc[t]: the statement thread t executes next
    r,            \* r[t]: the local r of RUnlock, Lock and Unlock
    c,            \* c[t]: the local c of TryRLock
    i,            \* i[t]: the loop index of Unlock
    fatal,        \* "none", or the message of the fatal() that ended the process
    unmatched,    \* threads that made a call with no matching acquisition
    mustDrain,    \* history: read-lock holders at the pending writer's registration
                  \*          that have not executed their RUnlock decrement since
    late,         \* history: threads whose RLock increment came after the pending
                  \*          writer registered and before its Lock() returned
    counter,      \* callers: the shared counter the lock guards
    tmp,          \* callers: tmp[t], the value a writer read from counter
    cs,           \* callers: cs[t], how far a writer's increment has got
    increments,   \* callers: number of increments completed
    outer         \* callers: threads that hold a read lock under the call in progress

vars == <<w, writerSem, readerSem, readerCount, readerWait, pc, r, c, i,
          fatal, unmatched, mustDrain, late, counter, tmp, cs, increments, outer>>

lockVars == <<w, writerSem, readerSem, readerCount, readerWait>>
histVars == <<mustDrain, late>>
miscVars == <<fatal, unmatched>>
\* What the callers keep for themselves; no method of the lock touches it.
clientVars == <<counter, tmp, cs, increments, outer>>

\* The zero value of a RWMutex, no thread inside any method.
Init ==
    /\ w = 0
    /\ writerSem = 0
    /\ readerSem = 0
    /\ readerCount = 0
    /\ readerWait = 0
    /\ pc = [t \in Threads |-> "idle"]
    /\ r = [t \in Threads |-> 0]
    /\ c = [t \in Threads |-> 0]
    /\ i = [t \in Threads |-> 0]
    /\ fatal = "none"
    /\ unmatched = {}
    /\ mustDrain = {}
    /\ late = {}
    /\ counter = 0
    /\ tmp = [t \in Threads |-> 0]
    /\ cs = [t \in Threads |-> "none"]
    /\ increments = 0
    /\ outer = {}

\* fatal() ends the process: no thread takes a step afterwards.  An
\* unmatched call that returned undetected has broken the callers' protocol:
\* what the lock does from then on is outside every contract, and the run
\* is followed no further.
Undetected == \E t \in unmatched : pc[t] = "idle"
Running == fatal = "none" /\ ~Undetected

At(t, label) == Running /\ pc[t] = label
Goto(t, label) == pc' = [pc EXCEPT ![t] = label]
\* Return from a method: the locals die, the call is over.
Return(t, label) ==
    /\ Goto(t, label)
    /\ r' = [r EXCEPT ![t] = 0]
    /\ c' = [c EXCEPT ![t] = 0]
    /\ i' = [i EXCEPT ![t] = 0]
    /\ UNCHANGED unmatched

\* Threads that hold the read lock: RLock()/TryRLock() returned and the
\* decrement of the matching RUnlock() has not run.
ReadHolders == {t \in Threads : pc[t] \in {"reading", "RUnlock"} /\ t \notin unmatched}
\* The writer that has registered (subtracted rwmutexMaxReaders) and whose
\* Lock() has not returned.
PendingWriters == {t \in Threads : pc[t] \in {"LockWait", "LockSem"}}

----------------------------------------------------------------------------
\* The callers: correctly paired calls.

CallRLock(t) ==
    /\ At(t, "idle") /\ Goto(t, "RLock")
    /\ UNCHANGED <<lockVars, r, c, i, miscVars, histVars>>
    /\ UNCHANGED clientVars

CallTryRLock(t) ==
    /\ At(t, "idle") /\ Goto(t, "TryRLock")
    /\ UNCHANGED <<lockVars, r, c, i, miscVars, histVars>>
    /\ UNCHANGED clientVars

CallRUnlock(t) ==
    /\ At(t, "reading") /\ Goto(t, "RUnlock")
    /\ UNCHANGED <<lockVars, r, c, i, miscVars, histVars>>
    /\ UNCHANGED clientVars

CallLock(t) ==
    /\ At(t, "idle") /\ Goto(t, "Lock")
    /\ UNCHANGED <<lockVars, r, c, i, miscVars, histVars>>
    /\ UNCHANGED clientVars

CallTryLock(t) ==
    /\ At(t, "idle") /\ Goto(t, "TryLock")
    /\ UNCHANGED <<lockVars, r, c, i, miscVars, histVars>>
    /\ UNCHANGED clientVars

CallUnlock(t) ==
    /\ At(t, "writing") /\ Goto(t, "Unlock")
    /\ UNCHANGED <<lockVars, r, c, i, miscVars, histVars>>
    /\ UNCHANGED clientVars

\* The callers' protocol violations: RUnlock() or Unlock() by a thread that
\* holds nothing.  A run makes at most one such call: the first one already
\* breaks the protocol.
CallUnmatchedRUnlock(t) ==
    /\ At(t, "idle") /\ unmatched = {}
    /\ Goto(t, "RUnlock")
    /\ unmatched' = unmatched \cup {t}
    /\ UNCHANGED <<lockVars, r, c, i, fatal, histVars>>
    /\ UNCHANGED clientVars

CallUnmatchedUnlock(t) ==
    /\ At(t, "idle") /\ unmatched = {}
    /\ Goto(t, "Unlock")
    /\ unmatched' = unmatched \cup {t}
    /\ UNCHANGED <<lockVars, r, c, i, fatal, histVars>>
    /\ UNCHANGED clientVars

----------------------------------------------------------------------------
\* RLock

\* Mutant of RLockAdd: the sign test is lost and every RLock() parks.
RLockAddAlwaysPark(t) ==
    /\ At(t, "RLock")
    /\ readerCount' = Add32(readerCount, 1)
    /\ Goto(t, "RLockSem")
    /\ late' = IF PendingWriters # {} THEN late \cup {t} ELSE late
    /\ UNCHANGED <<w, writerSem, readerSem, readerWait, r, c, i, miscVars, mustDrain>>
    /\ UNCHANGED clientVars

\* Mutant of RLockAdd: a reader that finds a writer announced takes its
\* increment back before it parks.
RLockAddBackOff(t) ==
    /\ At(t, "RLock")
    /\ IF Add32(readerCount, 1) < 0
         THEN Goto(t, "RLockSem") /\ UNCHANGED readerCount
         ELSE Goto(t, "reading") /\ readerCount' = Add32(readerCount, 1)
    /\ late' = IF PendingWriters # {} THEN late \cup {t} ELSE late
    /\ UNCHANGED <<w, writerSem, readerSem, readerWait, r, c, i, miscVars, mustDrain>>
    /\ UNCHANGED clientVars

\* if rw.readerCount.Add(1) < 0 { park } else return
RLockAdd(t) ==
    /\ At(t, "RLock")
    /\ readerCount' = Add32(readerCount, 1)
    /\ IF Add32(readerCount, 1) < 0
         THEN Goto(t, "RLockSem")
         ELSE Goto(t, "reading")
    /\ late' = IF PendingWriters # {} THEN late \cup {t} ELSE late
    /\ UNCHANGED <<w, writerSem, readerSem, readerWait, r, c, i, miscVars, mustDrain>>
    /\ UNCHANGED clientVars

\* Mutant of RLockSem: the semaphore acquire returns without a permit.
RLockSemNoWait(t) ==
    /\ At(t, "RLockSem")
    /\ Goto(t, "reading")
    /\ UNCHANGED <<lockVars, r, c, i, miscVars, histVars>>
    /\ UNCHANGED clientVars

\* runtime_SemacquireRWMutexR(&rw.readerSem, false, 0), then return
RLockSem(t) ==
    /\ At(t, "RLockSem")
    /\ readerSem > 0
    /\ readerSem' = readerSem - 1
    /\ Goto(t, "reading")
    /\ UNCHANGED <<w, writerSem, readerCount, readerWait, r, c, i, miscVars, histVars>>
    /\ UNCHANGED clientVars

----------------------------------------------------------------------------
\* TryRLock

\* Mutant of TryRLockLoad: the test c < 0 is lost.
TryRLockLoadNoCheck(t) ==
    /\ At(t, "TryRLock")
    /\ Goto(t, "TryRLockCAS")
    /\ c' = [c EXCEPT ![t] = readerCount]
    /\ UNCHANGED <<lockVars, r, i, miscVars, histVars>>
    /\ UNCHANGED clientVars

\* c := rw.readerCount.Load(); if c < 0 { return false }
TryRLockLoad(t) ==
    /\ At(t, "TryRLock")
    /\ IF readerCount < 0
         THEN Return(t, "idle")
         ELSE /\ Goto(t, "TryRLockCAS")
              /\ c' = [c EXCEPT ![t] = readerCount]
              /\ UNCHANGED <<r, i, unmatched>>
    /\ UNCHANGED <<lockVars, fatal, histVars>>
    /\ UNCHANGED clientVars

\* Mutant of TryRLockCAS: the swap stores the value it compared with, the
\* reader is not counted.
TryRLockCASNoIncrement(t) ==
    /\ At(t, "TryRLockCAS")
    /\ IF readerCount = c[t]
         THEN /\ readerCount' = c[t]
              /\ Return(t, "reading")
         ELSE /\ Goto(t, "TryRLock")
              /\ UNCHANGED <<readerCount, r, c, i, unmatched>>
    /\ UNCHANGED <<w, writerSem, readerSem, readerWait, fatal, histVars>>
    /\ UNCHANGED clientVars

\* if rw.readerCount.CompareAndSwap(c, c+1) { return true }; else loop
TryRLockCAS(t) ==
    /\ At(t, "TryRLockCAS")
    /\ IF readerCount = c[t]
         THEN /\ readerCount' = Add32(c[t], 1)
              /\ Return(t, "reading")
         ELSE /\ Goto(t, "TryRLock")
              /\ UNCHANGED <<readerCount, r, c, i, unmatched>>
    /\ UNCHANGED <<w, writerSem, readerSem, readerWait, fatal, histVars>>
    /\ UNCHANGED clientVars

----------------------------------------------------------------------------
\* RUnlock

\* Mutant of RUnlockAdd: the fatal test forgets the case of a registered
\* writer (r+1 == -rwmutexMaxReaders).
RUnlockAddNoWriterCase(t) ==
    /\ At(t, "RUnlock")
    /\ readerCount' = Add32(readerCount, -1)
    /\ IF Add32(readerCount, -1) < 0
         THEN IF Add32(Add32(readerCount, -1), 1) = 0
                THEN /\ fatal' = "sync: RUnlock of unlocked RWMutex"
                     /\ UNCHANGED <<pc, r, c, i>>
                ELSE /\ Goto(t, "rUnlockSlow")
                     /\ r' = [r EXCEPT ![t] = Add32(readerCount, -1)]
                     /\ UNCHANGED <<c, i, fatal>>
         ELSE Return(t, "idle") /\ UNCHANGED fatal
    /\ mustDrain' = IF t \in unmatched THEN mustDrain ELSE mustDrain \ {t}
    /\ UNCHANGED <<w, writerSem, readerSem, readerWait, unmatched, late>>
    /\ UNCHANGED clientVars

\* if r := rw.readerCount.Add(-1); r < 0 { rw.rUnlockSlow(r) }, and the test
\* that opens rUnlockSlow, which reads only the local r:
\* if r+1 == 0 || r+1 == -rwmutexMaxReaders { fatal(...) }
RUnlockAdd(t) ==
    /\ At(t, "RUnlock")
    /\ readerCount' = Add32(readerCount, -1)
    /\ IF Add32(readerCount, -1) < 0
         THEN IF Add32(Add32(readerCount, -1), 1) = 0 \/ Add32(Add32(readerCount, -1), 1) = -rwmutexMaxReaders
                THEN /\ fatal' = "sync: RUnlock of unlocked RWMutex"
                     /\ UNCHANGED <<pc, r, c, i>>
                ELSE /\ Goto(t, "rUnlockSlow")
                     /\ r' = [r EXCEPT ![t] = Add32(readerCount, -1)]
                     /\ UNCHANGED <<c, i, fatal>>
         ELSE Return(t, "idle") /\ UNCHANGED fatal
    /\ mustDrain' = IF t \in unmatched THEN mustDrain ELSE mustDrain \ {t}
    /\ UNCHANGED <<w, writerSem, readerSem, readerWait, unmatched, late>>
    /\ UNCHANGED clientVars

\* Mutant of rUnlockSlow: every departing reader releases the writer, not
\* only the one that brings readerWait to zero.
rUnlockSlowAlwaysWake(t) ==
    /\ At(t, "rUnlockSlow")
    /\ readerWait' = Add32(readerWait, -1)
    /\ Goto(t, "rUnlockSem")
    /\ UNCHANGED <<w, writerSem, readerSem, readerCount, r, c, i, miscVars, histVars>>
    /\ UNCHANGED clientVars

\* The rest of rUnlockSlow:
\* if rw.readerWait.Add(-1) == 0 { release the writer } else return
rUnlockSlow(t) ==
    /\ At(t, "rUnlockSlow")
    /\ readerWait' = Add32(readerWait, -1)
    /\ IF Add32(readerWait, -1) = 0
         THEN Goto(t, "rUnlockSem") /\ UNCHANGED <<r, c, i>>
         ELSE Return(t, "idle")
    /\ UNCHANGED <<w, writerSem, readerSem, readerCount, miscVars, histVars>>
    /\ UNCHANGED clientVars

\* Mutant of rUnlockSem: the last reader returns without releasing writerSem.
rUnlockSemLost(t) ==
    /\ At(t, "rUnlockSem")
    /\ Return(t, "idle")
    /\ UNCHANGED <<lockVars, fatal, histVars>>
    /\ UNCHANGED clientVars

\* runtime_Semrelease(&rw.writerSem, false, 1), then return
rUnlockSem(t) ==
    /\ At(t, "rUnlockSem")
    /\ writerSem' = writerSem + 1
    /\ Return(t, "idle")
    /\ UNCHANGED <<w, readerSem, readerCount, readerWait, fatal, histVars>>
    /\ UNCHANGED clientVars

----------------------------------------------------------------------------
\* Lock

\* rw.w.Lock(): blocks until the mutex is free
LockW(t) ==
    /\ At(t, "Lock")
    /\ w = 0
    /\ w' = t
    /\ Goto(t, "LockAdd")
    /\ UNCHANGED <<writerSem, readerSem, readerCount, readerWait, r, c, i, miscVars, histVars>>
    /\ UNCHANGED clientVars

\* Mutant of LockAdd: the bias is applied with the wrong sign,
\* r := rw.readerCount.Add(rwmutexMaxReaders) - rwmutexMaxReaders.
LockAddWrongSign(t) ==
    /\ At(t, "LockAdd")
    /\ readerCount' = Add32(readerCount, rwmutexMaxReaders)
    /\ IF Add32(Add32(readerCount, rwmutexMaxReaders), -rwmutexMaxReaders) # 0
         THEN /\ Goto(t, "LockWait")
              /\ r' = [r EXCEPT ![t] = Add32(Add32(readerCount, rwmutexMaxReaders), -rwmutexMaxReaders)]
              /\ UNCHANGED <<c, i, unmatched>>
         ELSE Return(t, "writing")
    /\ mustDrain' = ReadHolders
    /\ late' = {}
    /\ UNCHANGED <<w, writerSem, readerSem, readerWait, fatal>>
    /\ UNCHANGED clientVars

\* Mutant of LockAdd: the writer announces itself and parks on writerSem
\* without looking at the number of readers.
LockAddAlwaysPark(t) ==
    /\ At(t, "LockAdd")
    /\ readerCount' = Add32(readerCount, -rwmutexMaxReaders)
    /\ Goto(t, "LockSem")
    /\ r' = [r EXCEPT ![t] = Add32(Add32(readerCount, -rwmutexMaxReaders), rwmutexMaxReaders)]
    /\ mustDrain' = ReadHolders
    /\ late' = {}
    /\ UNCHANGED <<w, writerSem, readerSem, readerWait, c, i, miscVars>>
    /\ UNCHANGED clientVars

\* Mutant of LockAdd: the writer announces itself and returns at once,
\* whatever the number of readers that hold the lock.
LockAddNoDrain(t) ==
    /\ At(t, "LockAdd")
    /\ readerCount' = Add32(readerCount, -rwmutexMaxReaders)
    /\ Return(t, "writing")
    /\ mustDrain' = ReadHolders
    /\ late' = {}
    /\ UNCHANGED <<w, writerSem, readerSem, readerWait, fatal>>
    /\ UNCHANGED clientVars

\* r := rw.readerCount.Add(-rwmutexMaxReaders) + rwmutexMaxReaders; if r != 0 ...
LockAdd(t) ==
    /\ At(t, "LockAdd")
    /\ readerCount' = Add32(readerCount, -rwmutexMaxReaders)
    /\ IF Add32(Add32(readerCount, -rwmutexMaxReaders), rwmutexMaxReaders) # 0
         THEN /\ Goto(t, "LockWait")
              /\ r' = [r EXCEPT ![t] = Add32(Add32(readerCount, -rwmutexMaxReaders), rwmutexMaxReaders)]
              /\ UNCHANGED <<c, i, unmatched>>
         ELSE Return(t, "writing")
    /\ mustDrain' = ReadHolders
    /\ late' = {}
    /\ UNCHANGED <<w, writerSem, readerSem, readerWait, fatal>>
    /\ UNCHANGED clientVars

\* Mutant of LockWait: the writer parks whenever it counted a reader,
\* whatever readerWait.Add(r) returns.
LockWaitAlwaysPark(t) ==
    /\ At(t, "LockWait")
    /\ readerWait' = Add32(readerWait, r[t])
    /\ Goto(t, "LockSem") /\ UNCHANGED <<r, c, i, unmatched, late>>
    /\ UNCHANGED <<w, writerSem, readerSem, readerCount, fatal, mustDrain>>
    /\ UNCHANGED clientVars

\* Mutant of LockWait: the writer records readerWait and returns without
\* waiting for the readers to drain.
LockWaitNoPark(t) ==
    /\ At(t, "LockWait")
    /\ readerWait' = Add32(readerWait, r[t])
    /\ Return(t, "writing") /\ late' = {}
    /\ UNCHANGED <<w, writerSem, readerSem, readerCount, fatal, mustDrain>>
    /\ UNCHANGED clientVars

\* ... && rw.readerWait.Add(r) != 0 { park } else return
LockWait(t) ==
    /\ At(t, "LockWait")
    /\ readerWait' = Add32(readerWait, r[t])
    /\ IF Add32(readerWait, r[t]) # 0
         THEN Goto(t, "LockSem") /\ UNCHANGED <<r, c, i, unmatched, late>>
         ELSE Return(t, "writing") /\ late' = {}
    /\ UNCHANGED <<w, writerSem, readerSem, readerCount, fatal, mustDrain>>
    /\ UNCHANGED clientVars

\* runtime_SemacquireRWMutex(&rw.writerSem, false, 0), then return
LockSem(t) ==
    /\ At(t, "LockSem")
    /\ writerSem > 0
    /\ writerSem' = writerSem - 1
    /\ Return(t, "writing")
    /\ late' = {}
    /\ UNCHANGED <<w, readerSem, readerCount, readerWait, fatal, mustDrain>>
    /\ UNCHANGED clientVars

----------------------------------------------------------------------------
\* TryLock

\* Mutant of TryLockW: rw.w.Lock() is called instead of rw.w.TryLock().
TryLockWBlocking(t) ==
    /\ At(t, "TryLock")
    /\ w = 0
    /\ w' = t /\ Goto(t, "TryLockCAS")
    /\ UNCHANGED <<writerSem, readerSem, readerCount, readerWait, r, c, i, miscVars, histVars>>
    /\ UNCHANGED clientVars

\* if !rw.w.TryLock() { return false }
TryLockW(t) ==
    /\ At(t, "TryLock")
    /\ IF w = 0
         THEN w' = t /\ Goto(t, "TryLockCAS") /\ UNCHANGED <<r, c, i, unmatched>>
         ELSE UNCHANGED w /\ Return(t, "idle")
    /\ UNCHANGED <<writerSem, readerSem, readerCount, readerWait, fatal, histVars>>
    /\ UNCHANGED clientVars

\* Mutant of TryLockCAS: the writer announces itself whenever no other
\* writer is announced, readers or not.
TryLockCASOverReaders(t) ==
    /\ At(t, "TryLockCAS")
    /\ IF readerCount >= 0
         THEN readerCount' = Add32(readerCount, -rwmutexMaxReaders) /\ Return(t, "writing")
         ELSE UNCHANGED readerCount /\ Goto(t, "TryLockUnlock")
                                    /\ UNCHANGED <<r, c, i, unmatched>>
    /\ UNCHANGED <<w, writerSem, readerSem, readerWait, fatal, histVars>>
    /\ UNCHANGED clientVars

\* if !rw.readerCount.CompareAndSwap(0, -rwmutexMaxReaders) { unlock } else return true
TryLockCAS(t) ==
    /\ At(t, "TryLockCAS")
    /\ IF readerCount = 0
         THEN readerCount' = -rwmutexMaxReaders /\ Return(t, "writing")
         ELSE UNCHANGED readerCount /\ Goto(t, "TryLockUnlock")
                                    /\ UNCHANGED <<r, c, i, unmatched>>
    /\ UNCHANGED <<w, writerSem, readerSem, readerWait, fatal, histVars>>
    /\ UNCHANGED clientVars

\* Mutant of TryLockUnlock: the failed TryLock() returns with rw.w still locked.
TryLockUnlockForgotten(t) ==
    /\ At(t, "TryLockUnlock")
    /\ Return(t, "idle")
    /\ UNCHANGED <<lockVars, fatal, histVars>>
    /\ UNCHANGED clientVars

\* rw.w.Unlock(); return false
TryLockUnlock(t) ==
    /\ At(t, "TryLockUnlock")
    /\ IF w = 0
         THEN fatal' = "sync: unlock of unlocked mutex" /\ UNCHANGED <<w, pc, r, c, i, unmatched>>
         ELSE w' = 0 /\ Return(t, "idle") /\ UNCHANGED fatal
    /\ UNCHANGED <<writerSem, readerSem, readerCount, readerWait, histVars>>
    /\ UNCHANGED clientVars

----------------------------------------------------------------------------
\* Unlock

\* r := rw.readerCount.Add(rwmutexMaxReaders); if r >= rwmutexMaxReaders { fatal(...) }
UnlockAdd(t) ==
    /\ At(t, "Unlock")
    /\ readerCount' = Add32(readerCount, rwmutexMaxReaders)
    /\ IF Add32(readerCount, rwmutexMaxReaders) >= rwmutexMaxReaders
         THEN /\ fatal' = "sync: Unlock of unlocked RWMutex"
              /\ UNCHANGED <<pc, r>>
         ELSE /\ r' = [r EXCEPT ![t] = Add32(readerCount, rwmutexMaxReaders)]
              /\ IF 0 < Add32(readerCount, rwmutexMaxReaders)
                   THEN Goto(t, "UnlockRelease")
                   ELSE Goto(t, "UnlockW")
              /\ UNCHANGED fatal
    /\ UNCHANGED <<w, writerSem, readerSem, readerWait, c, i, unmatched, histVars>>
    /\ UNCHANGED clientVars

\* Mutant of UnlockRelease: the loop runs while i <= r and releases one
\* permit too many.
UnlockReleaseOneMore(t) ==
    /\ At(t, "UnlockRelease")
    /\ readerSem' = readerSem + 1
    /\ i' = [i EXCEPT ![t] = i[t] + 1]
    /\ IF i[t] + 1 <= r[t]
         THEN UNCHANGED pc
         ELSE Goto(t, "UnlockW")
    /\ UNCHANGED <<w, writerSem, readerCount, readerWait, r, c, miscVars, histVars>>
    /\ UNCHANGED clientVars

\* for i := 0; i < int(r); i++ { runtime_Semrelease(&rw.readerSem, false, 0) }
UnlockRelease(t) ==
    /\ At(t, "UnlockRelease")
    /\ readerSem' = readerSem + 1
    /\ i' = [i EXCEPT ![t] = i[t] + 1]
    /\ IF i[t] + 1 < r[t]
         THEN UNCHANGED pc
         ELSE Goto(t, "UnlockW")
    /\ UNCHANGED <<w, writerSem, readerCount, readerWait, r, c, miscVars, histVars>>
    /\ UNCHANGED clientVars

\* rw.w.Unlock(), then return
UnlockW(t) ==
    /\ At(t, "UnlockW")
    /\ IF w = 0
         THEN fatal' = "sync: unlock of unlocked mutex" /\ UNCHANGED <<w, pc, r, c, i, unmatched>>
         ELSE w' = 0 /\ Return(t, "idle") /\ UNCHANGED fatal
    /\ UNCHANGED <<writerSem, readerSem, readerCount, readerWait, histVars>>
    /\ UNCHANGED clientVars

----------------------------------------------------------------------------
\* One step of thread t inside a method of the lock.
Method(t) ==
    \/ RLockAdd(t) \/ RLockSem(t)
    \/ TryRLockLoad(t) \/ TryRLockCAS(t)
    \/ RUnlockAdd(t) \/ rUnlockSlow(t) \/ rUnlockSem(t)
    \/ LockW(t) \/ LockAdd(t) \/ LockWait(t) \/ LockSem(t)
    \/ TryLockW(t) \/ TryLockCAS(t) \/ TryLockUnlock(t)
    \/ UnlockAdd(t) \/ UnlockRelease(t) \/ UnlockW(t)

\* One correctly paired call of thread t.
Call(t) ==
    \/ CallRLock(t) \/ CallTryRLock(t) \/ CallRUnlock(t)
    \/ CallLock(t) \/ CallTryLock(t) \/ CallUnlock(t)

Next == \E t \in Threads : Call(t) \/ Method(t)

\* Correct usage: every RUnlock()/Unlock() is called by a thread that holds
\* the lock it releases.
Spec == Init /\ [][Next]_vars

NextMisuse ==
    \E t \in Threads :
        Call(t) \/ Method(t) \/ CallUnmatchedRUnlock(t) \/ CallUnmatchedUnlock(t)

\* Usage with one unmatched RUnlock() or Unlock() call.
SpecMisuse == Init /\ [][NextMisuse]_vars

----------------------------------------------------------------------------
\* Critical sections, as the callers see them.

\* Inside a write critical section: Lock() returned or TryLock() returned
\* true, and the matching Unlock() has not begun.
Writers == {t \in Threads : pc[t] = "writing"}
\* Inside a read critical section: RLock() returned or TryRLock() returned
\* true, and the matching RUnlock() has not begun.
Readers == {t \in Threads : pc[t] = "reading"}

\* C1. Mutual exclusion: at most one thread is inside a write critical
\* section, and while one is, no thread is inside a read critical section.
C1_MutualExclusion ==
    /\ Cardinality(Writers) <= 1
    /\ Writers # {} => Readers = {}

\* A writer holds the lock while a late reader is parked and another writer
\* waits for rw.w.
C1_Witness ==
    \E t, u, v \in Threads :
        pc[t] = "writing" /\ pc[u] = "RLockSem" /\ pc[v] = "Lock"

\* C2. Writer visibility: while a thread is inside its write critical
\* section readerCount is in [-rwmutexMaxReaders, 0), and no step taken
\* during that interval is the return of an RLock() or a successful
\* TryRLock().
C2_WriterVisibility ==
    /\ [](Writers # {} => (-rwmutexMaxReaders <= readerCount /\ readerCount < 0))
    /\ [][(\E t \in Threads : pc[t] = "writing" /\ pc'[t] = "writing")
            => \A u \in Threads : pc'[u] = "reading" => pc[u] = "reading"]_vars

\* A writer is inside while one reader is parked in RLock() and another
\* thread is about to load readerCount in TryRLock().
C2_Witness ==
    \E t, u, v \in Threads :
        /\ pc[t] = "writing" /\ pc[u] = "RLockSem" /\ pc[v] = "TryRLock"
        /\ readerCount = 1 - rwmutexMaxReaders

\* C3. Drain correctness: a thread is inside a write critical section only
\* when every reader that held the read lock at the last writer registration
\* has executed its RUnlock() decrement.
C3_DrainCorrectness == Writers # {} => mustDrain = {}

\* A writer registered while two readers held the lock and is parked on
\* writerSem; one of the two has released, the other has not.
C3_Witness ==
    \E t \in Threads :
        /\ pc[t] = "LockSem" /\ r[t] = 2
        /\ Cardinality(mustDrain) = 1 /\ readerWait = 1

\* C4. Writer preference: a reader whose RLock() increment came after the
\* pending writer registered does not return from RLock() before that
\* writer's Lock() has returned.
C4_NoLateReaderBeforeWriter ==
    [][\A t \in late : pc[t] = "RLockSem" => pc'[t] = "RLockSem"]_vars

\* C6. Reader concurrency: an RLock() whose increment finds readerCount >= 0
\* returns without parking and raises readerCount by exactly one.
C6_ReaderConcurrency ==
    [][\A t \in Threads :
          (pc[t] = "RLock" /\ pc'[t] # "RLock" /\ readerCount >= 0)
              => (pc'[t] = "reading" /\ readerCount' = readerCount + 1)]_vars

\* Every thread holds the read lock at once, and readerCount counts them.
C6_Witness ==
    /\ \A t \in Threads : pc[t] = "reading"
    /\ readerCount = NThreads /\ readerSem = 0

HeldForWriting == \E u \in Threads \ unmatched : pc[u] \in {"writing", "Unlock"}

\* C8. An unmatched Unlock() made while the lock is not held for writing
\* ends in fatal("sync: Unlock of unlocked RWMutex") at its first step, with
\* readerSem and rw.w untouched.
C8_UnmatchedUnlockFatal ==
    [][\A t \in unmatched :
          (pc[t] = "Unlock" /\ pc'[t] # "Unlock" /\ ~HeldForWriting)
              => (fatal' = "sync: Unlock of unlocked RWMutex"
                    /\ UNCHANGED <<readerSem, w>>)]_vars

TryLockLabels == {"TryLock", "TryLockCAS", "TryLockUnlock"}
TryRLockLabels == {"TryRLock", "TryRLockCAS"}

\* C9. TryLock rollback: no step of a TryLock() that ends up returning false
\* changes readerCount, readerWait, readerSem or writerSem, and when it
\* returns false the caller does not hold rw.w.
C9_TryLockRollback ==
    [][\A t \in Threads :
          (pc[t] \in TryLockLabels /\ pc'[t] # pc[t] /\ pc'[t] # "writing")
              => /\ UNCHANGED <<readerCount, readerWait, readerSem, writerSem>>
                 /\ pc'[t] = "idle" => w' # t]_vars

\* A TryLock() took rw.w, found readers registered, and is about to undo.
C9_Witness ==
    \E t \in Threads : pc[t] = "TryLockUnlock" /\ w = t /\ readerCount > 0

\* C10. Try-variants never block: a thread inside TryLock() or TryRLock()
\* can always take its next step; TryLock() only moves forward through its
\* three statements; TryRLock() goes back to its load only from a
\* compare-and-swap that found readerCount different from the loaded c.
C10_TryNeverBlocks ==
    /\ [](\A t \in Threads :
            pc[t] \in TryLockLabels \cup TryRLockLabels => ENABLED Method(t))
    /\ [][\A t \in Threads :
            /\ (pc[t] = "TryLock" /\ pc'[t] # pc[t])
                  => pc'[t] \in {"TryLockCAS", "idle"}
            /\ (pc[t] = "TryLockCAS" /\ pc'[t] # pc[t])
                  => pc'[t] \in {"TryLockUnlock", "writing"}
            /\ (pc[t] = "TryLockUnlock" /\ pc'[t] # pc[t]) => pc'[t] = "idle"
            /\ (pc'[t] = "TryRLock" /\ pc[t] \notin {"TryRLock", "idle"})
                  => (pc[t] = "TryRLockCAS" /\ readerCount # c[t])]_vars

\* A TryRLock() is back at its load after a failed compare-and-swap while
\* another thread calls TryLock() with rw.w taken.
C10_Witness ==
    \E t, u \in Threads :
        /\ pc[t] = "TryRLock" /\ c[t] > 0
        /\ pc[u] = "TryLock" /\ w # 0

----------------------------------------------------------------------------
\* Scheduling: the Go scheduler runs every runnable goroutine eventually, so
\* a thread inside a method takes its next step if that step stays possible;
\* and every holder of the read lock eventually calls RUnlock().  Nothing
\* obliges a thread to start a new acquisition or a writer to Unlock().
Progress(t) == Method(t) \/ CallRUnlock(t)

FairSpec == Init /\ [][Next]_vars /\ \A t \in Threads : WF_vars(Progress(t))

\* Threads inside Lock() that have acquired rw.w and have not returned.
InLock == {t \in Threads : pc[t] \in {"LockAdd", "LockWait", "LockSem"}}

\* C5. No writer starvation: a Lock() that has acquired rw.w returns.  At
\* most one thread is past rw.w.Lock() at a time and no write critical
\* section is open meanwhile; that thread leaves Lock() only by returning;
\* and whenever there is such a thread, a write critical section opens.
C5_WriterNotStarved ==
    /\ [](\A t \in InLock : Writers = {} /\ InLock = {t})
    /\ [][\A t \in InLock : pc'[t] \in {"LockAdd", "LockWait", "LockSem", "writing"}]_vars
    /\ (InLock # {}) ~> (Writers # {})

\* A writer is parked on writerSem waiting for a reader to drain, with a
\* later RLock() call queued behind it.
C5_Witness ==
    \E t, u \in Threads :
        /\ pc[t] = "LockSem" /\ pc[u] = "RLockSem" /\ u \in late
        /\ mustDrain # {} /\ readerCount = 2 - rwmutexMaxReaders

----------------------------------------------------------------------------
\* Callers that guard a shared counter with the lock: a writer increments
\* it between Lock() and Unlock() with a read and a separate write; a
\* reader looks at it between RLock() and RUnlock().

\* Number of increments the writers make in one run.
MaxIncrements == 2

\* A thread between its call of Lock() and the return of its Unlock().
WriterPath ==
    {"Lock", "LockAdd", "LockWait", "LockSem", "writing", "Unlock",
     "UnlockRelease", "UnlockW"}

\* Another writer may start: the increments made and under way stay
\* within MaxIncrements.
Budget ==
    increments + Cardinality({u \in Threads : pc[u] \in WriterPath}) < MaxIncrements

CounterCallLock(t) == Budget /\ CallLock(t)

\* tmp := counter
IncrementRead(t) ==
    /\ At(t, "writing") /\ cs[t] = "none"
    /\ tmp' = [tmp EXCEPT ![t] = counter]
    /\ cs' = [cs EXCEPT ![t] = "read"]
    /\ UNCHANGED <<lockVars, pc, r, c, i, miscVars, histVars, counter, increments, outer>>

\* counter = tmp + 1
IncrementWrite(t) ==
    /\ At(t, "writing") /\ cs[t] = "read"
    /\ counter' = tmp[t] + 1
    /\ increments' = increments + 1
    /\ tmp' = [tmp EXCEPT ![t] = 0]
    /\ cs' = [cs EXCEPT ![t] = "written"]
    /\ UNCHANGED <<lockVars, pc, r, c, i, miscVars, histVars, outer>>

\* Unlock(), once the increment is made
CounterCallUnlock(t) ==
    /\ At(t, "writing") /\ cs[t] = "written"
    /\ Goto(t, "Unlock")
    /\ cs' = [cs EXCEPT ![t] = "none"]
    /\ UNCHANGED <<lockVars, r, c, i, miscVars, histVars, counter, tmp, increments, outer>>

CounterCall(t) ==
    \/ CallRLock(t) \/ CallRUnlock(t) \/ CounterCallLock(t)
    \/ IncrementRead(t) \/ IncrementWrite(t) \/ CounterCallUnlock(t)

\* One step of thread t inside RLock(), RUnlock(), Lock() or Unlock().
BlockingMethod(t) ==
    \/ RLockAdd(t) \/ RLockSem(t)
    \/ RUnlockAdd(t) \/ rUnlockSlow(t) \/ rUnlockSem(t)
    \/ LockW(t) \/ LockAdd(t) \/ LockWait(t) \/ LockSem(t)
    \/ UnlockAdd(t) \/ UnlockRelease(t) \/ UnlockW(t)

NextCounter == \E t \in Threads : CounterCall(t) \/ BlockingMethod(t)

SpecCounter == Init /\ [][NextCounter]_vars

\* C11. No update of the counter is lost: the counter is always the number
\* of increments the writers have completed, no two writers are inside an
\* increment together, and while a reader is inside its read critical
\* section (where it reads the counter) no increment is half done, so what
\* it reads is the outcome of a whole number of completed increments.
C11_NoLostUpdates ==
    /\ counter = increments
    /\ Cardinality({u \in Threads : cs[u] = "read"}) <= 1
    /\ (\E t \in Threads : pc[t] = "reading") => \A u \in Threads : cs[u] # "read"

\* All threads have finished, every increment of the run is in the counter.
C11_Witness ==
    /\ \A t \in Threads : pc[t] = "idle"
    /\ increments = MaxIncrements
    /\ counter = MaxIncrements

----------------------------------------------------------------------------
\* The fields of a RWMutex other than w are what a zero value holds.
ZeroValue ==
    /\ readerCount = 0
    /\ readerWait = 0
    /\ readerSem = 0
    /\ writerSem = 0

\* C12. The zero value is a usable, unlocked lock: the lock starts with
\* readerCount = 0, readerWait = 0, no permit on either semaphore, w free
\* and no call in progress; on such a lock Lock() gets w without waiting,
\* the increment of RLock() returns with the read lock without parking, and
\* the subtraction of Lock() returns with the write lock without parking on
\* writerSem.
C12_ZeroValueUsable ==
    /\ (ZeroValue /\ w = 0 /\ \A t \in Threads : pc[t] = "idle")
    /\ [](\A t \in Threads :
             (ZeroValue /\ w = 0 /\ At(t, "Lock")) => ENABLED LockW(t))
    /\ [][\A t \in Threads :
             (ZeroValue /\ pc[t] = "RLock" /\ pc'[t] # "RLock")
                 => (pc'[t] = "reading" /\ readerCount' = 1 /\ readerSem' = 0)]_vars
    /\ [][\A t \in Threads :
             (ZeroValue /\ pc[t] = "LockAdd" /\ pc'[t] # "LockAdd")
                 => (pc'[t] = "writing" /\ readerCount' = -rwmutexMaxReaders
                     /\ readerWait' = 0 /\ writerSem' = 0)]_vars

\* A Lock() on the zero value has returned: its caller is the only thread
\* that has called anything, and nothing but the writer's announcement and
\* w has changed.
C12_Witness ==
    \E t \in Threads :
        /\ pc[t] = "writing" /\ w = t
        /\ readerCount = -rwmutexMaxReaders
        /\ readerWait = 0 /\ readerSem = 0 /\ writerSem = 0
        /\ \A u \in Threads \ {t} : pc[u] = "idle"

----------------------------------------------------------------------------
\* What readerCount encodes.

\* Writers whose announcement is in readerCount: pending (the subtraction
\* of Lock() has run, Lock() has not returned) or holding (until the
\* addition of Unlock() runs).
Announced == {t \in Threads : pc[t] \in {"LockWait", "LockSem", "writing", "Unlock"}}

\* Readers counted in readerCount: RLock() has incremented and the
\* decrement of the matching RUnlock() has not run.  They hold the read
\* lock, or are still inside RLock(), on its semaphore acquire.
Registered == ReadHolders \cup {t \in Threads : pc[t] = "RLockSem"}

\* C13 as stated. readerCount >= 0 exactly when no writer is holding the
\* lock or waiting for it, and then readerCount is the number of readers
\* inside a read critical section.
C13_NonNegativeCountsReaders ==
    /\ (readerCount >= 0) <=> (Announced = {})
    /\ (readerCount >= 0) => (Cardinality(ReadHolders) = readerCount)

\* C13, amended. readerCount >= 0 exactly when no writer is announced, and
\* then readerCount is the number of registered readers: those that hold
\* the read lock and those still inside RLock() that incremented under a
\* writer and have not yet returned from the semaphore acquire.
C13_NonNegativeCountsRegistered ==
    /\ (readerCount >= 0) <=> (Announced = {})
    /\ (readerCount >= 0) => (Cardinality(Registered) = readerCount)

\* No writer is announced and readerCount counts a reader that is still
\* inside RLock() next to one that holds the read lock.
C13_Witness ==
    /\ Announced = {}
    /\ readerCount = 2
    /\ \E t, u \in Threads : pc[t] = "RLockSem" /\ pc[u] = "reading"

\* C14 as stated. readerCount is in [-rwmutexMaxReaders, 0) exactly when a
\* writer is pending or holding, and then readerCount + rwmutexMaxReaders
\* is the number of readers that hold the read lock and have not released
\* it; readerCount is never below -rwmutexMaxReaders.
C14_NegativeCountsHolders ==
    /\ (-rwmutexMaxReaders <= readerCount /\ readerCount < 0) <=> (Announced # {})
    /\ (Announced # {}) => (readerCount + rwmutexMaxReaders = Cardinality(ReadHolders))
    /\ readerCount >= -rwmutexMaxReaders

\* C14, amended. readerCount is in [-rwmutexMaxReaders, 0) exactly when a
\* writer is announced (pending or holding), at most one writer is
\* announced, and then readerCount + rwmutexMaxReaders is the number of
\* registered readers: those that still hold the read lock and those
\* parked in RLock() behind the writer; readerCount is never below
\* -rwmutexMaxReaders.
C14_NegativeCountsRegistered ==
    /\ (-rwmutexMaxReaders <= readerCount /\ readerCount < 0) <=> (Announced # {})
    /\ Cardinality(Announced) <= 1
    /\ (Announced # {}) => (readerCount + rwmutexMaxReaders = Cardinality(Registered))
    /\ readerCount >= -rwmutexMaxReaders

\* A writer is pending on one reader that holds the read lock while a
\* second reader is parked in RLock() behind it: readerCount counts both.
C14_Witness ==
    /\ \E t, u, v \in Threads :
           pc[t] = "LockSem" /\ pc[u] = "reading" /\ pc[v] = "RLockSem"
    /\ readerCount = 2 - rwmutexMaxReaders

----------------------------------------------------------------------------
\* The handshake of a pending writer with the last reader it waits for.

\* Readers whose readerWait decrement reached zero and whose release of
\* writerSem is still to run.
Releasers == {t \in Threads : pc[t] = "rUnlockSem"}
\* Permits on writerSem, released or about to be.
WriterPermits == writerSem + Cardinality(Releasers)

\* C15. Lock() parks on writerSem exactly when it counted r # 0 readers
\* and readerWait.Add(r) is not zero. When all r readers have gone through
\* RUnlock() before the addition (readerWait negative in between) the
\* addition lands on zero, the writer returns without parking and no permit
\* is released. Otherwise one permit is released, by the reader whose
\* decrement of readerWait reaches zero: there is never more than one
\* permit, there is one only while a writer is parked to take it, and a
\* parked writer has its permit or still has readers to wait for.
C15_WriterHandshake ==
    /\ [](/\ WriterPermits <= 1
          /\ WriterPermits = 1 => \E t \in Threads : pc[t] = "LockSem"
          /\ \A t \in Threads : pc[t] = "LockSem" =>
                 \/ WriterPermits = 1 /\ readerWait = 0
                 \/ WriterPermits = 0 /\ readerWait > 0
          /\ \A t \in Threads : pc[t] = "LockWait" =>
                 (readerWait <= 0 /\ readerWait + r[t] >= 0 /\ r[t] # 0))
    /\ [][\A t \in Threads :
             /\ (pc[t] = "LockAdd" /\ pc'[t] # "LockAdd")
                   => /\ pc'[t] = (IF readerCount # 0 THEN "LockWait" ELSE "writing")
                      /\ UNCHANGED <<readerWait, writerSem>>
             /\ (pc[t] = "LockWait" /\ pc'[t] # "LockWait")
                   => /\ readerWait' = readerWait + r[t]
                      /\ pc'[t] = (IF readerWait' # 0 THEN "LockSem" ELSE "writing")
                      /\ UNCHANGED writerSem
             /\ (pc[t] = "rUnlockSlow" /\ pc'[t] # "rUnlockSlow")
                   => /\ readerWait' = readerWait - 1
                      /\ pc'[t] = (IF readerWait' = 0 THEN "rUnlockSem" ELSE "idle")
                      /\ UNCHANGED writerSem]_vars

\* Every reader the writer counted has gone through RUnlock() before the
\* writer's readerWait.Add(r): readerWait is negative and the addition is
\* about to land on zero.
C15_Witness ==
    \E t \in Threads :
        /\ pc[t] = "LockWait"
        /\ readerWait < 0
        /\ readerWait + r[t] = 0
        /\ writerSem = 0 /\ Releasers = {}

----------------------------------------------------------------------------
\* RLock() calls that incremented readerCount while it was negative and
\* have not yet returned: they are on the semaphore acquire.
Parked == {t \in Threads : pc[t] = "RLockSem"}

\* C16. Unlock() wakes every queued reader: the r it computes is the
\* number of parked RLock() calls, the permits on readerSem and those it
\* has still to release add up to that number while it holds w, it
\* releases w only when all r are released, and, under weak fairness, a
\* parked RLock() call returns once the writer it waited for has added
\* rwmutexMaxReaders back.
C16_UnlockWakesQueuedReaders ==
    /\ [](\A t \in Threads :
             /\ pc[t] \in {"writing", "Unlock"} => readerSem = 0
             /\ pc[t] \in {"UnlockRelease", "UnlockW"} =>
                    (w = t /\ readerSem + (r[t] - i[t]) = Cardinality(Parked)))
    /\ [][\A t \in Threads :
             /\ (pc[t] = "Unlock" /\ pc'[t] # "Unlock") => r'[t] = Cardinality(Parked)
             /\ (pc[t] = "UnlockW" /\ w = t /\ w' = 0) => i[t] = r[t]]_vars
    /\ \A t \in Threads :
           (pc[t] = "RLockSem" /\ readerCount >= 0) ~> (pc[t] = "reading")

----------------------------------------------------------------------------
\* Callers that lock for reading recursively: a thread that holds the read
\* lock calls RLock() once more, and releases both holds afterwards.

\* RLock() by a thread that holds the read lock
CallRLockRecursive(t) ==
    /\ At(t, "reading") /\ t \notin outer
    /\ Goto(t, "RLock")
    /\ outer' = outer \cup {t}
    /\ UNCHANGED <<lockVars, r, c, i, miscVars, histVars, counter, tmp, cs, increments>>

\* The RUnlock() of the inner hold has returned: the thread is back in the
\* read critical section of its first RLock().
ReturnToOuter(t) ==
    /\ At(t, "idle") /\ t \in outer
    /\ Goto(t, "reading")
    /\ outer' = outer \ {t}
    /\ UNCHANGED <<lockVars, r, c, i, miscVars, histVars, counter, tmp, cs, increments>>

RecursiveCall(t) ==
    \/ t \notin outer /\ CallRLock(t)
    \/ t \notin outer /\ CallLock(t)
    \/ CallRUnlock(t) \/ CallUnlock(t)
    \/ CallRLockRecursive(t) \/ ReturnToOuter(t)

NextRecursive == \E t \in Threads : RecursiveCall(t) \/ BlockingMethod(t)

SpecRecursive == Init /\ [][NextRecursive]_vars

\* Thread t holds the read lock and is parked in a second RLock() that
\* incremented after writer u had announced itself; u is parked in Lock()
\* waiting for t's first hold; no permit is on either semaphore or about
\* to be released, and no other thread holds the read lock.
Deadlocked(t, u) ==
    /\ pc[t] = "RLockSem" /\ t \in outer /\ t \in late
    /\ pc[u] = "LockSem" /\ w = u
    /\ readerSem = 0 /\ writerSem = 0
    /\ readerWait >= 1
    /\ \A v \in Threads \ {t, u} :
          /\ pc[v] \in {"idle", "RLock", "RLockSem", "Lock"}
          /\ v \notin outer

\* C17. Recursive read locking can deadlock: once a thread that holds the
\* read lock is parked in a second RLock() behind a writer that waits for
\* its first hold, no step of any thread ends that state; neither the
\* RLock() nor the writer's Lock() ever returns.
C17_RecursiveReadDeadlock ==
    [][\A t, u \in Threads : Deadlocked(t, u) => Deadlocked(t, u)']_vars

\* The deadlock is reached, with a third thread parked behind it as well.
C17_Witness ==
    \E t, u, v \in Threads : Deadlocked(t, u) /\ pc[v] = "RLockSem" /\ v # t

----------------------------------------------------------------------------
\* C18. TryLock() returns true exactly when rw.w.TryLock() got the mutex and
\* the compare-and-swap then found readerCount = 0, which it sets to
\* -rwmutexMaxReaders: the compare-and-swap runs only straight after the
\* mutex was taken, with the mutex held, and once per call; no step of
\* TryLock() changes readerWait; the caller that returns true holds rw.w.
C18_TryLockSuccess ==
    /\ [](\A t \in Threads : pc[t] = "TryLockCAS" => w = t)
    /\ [][\A t \in Threads :
             (pc[t] \in TryLockLabels /\ pc'[t] # pc[t])
                 => /\ UNCHANGED readerWait
                    /\ (pc'[t] = "TryLockCAS") <=> (pc[t] = "TryLock" /\ w = 0)
                    /\ (pc'[t] = "writing") <=> (pc[t] = "TryLockCAS" /\ readerCount = 0)
                    /\ (pc'[t] = "writing")
                          => (readerCount' = -rwmutexMaxReaders /\ w' = t)]_vars

\* A TryLock() holds rw.w and is about to swap a readerCount of 0, while a
\* Lock() and an RLock() of other threads are under way.
C18_Witness ==
    \E t, u, v \in Threads :
        /\ pc[t] = "TryLockCAS" /\ w = t /\ readerCount = 0
        /\ pc[u] = "Lock" /\ pc[v] = "RLock"

----------------------------------------------------------------------------
\* No call is in progress and nothing is held: every thread is outside the
\* lock's methods and outside both kinds of critical section.
Quiescent == \A t \in Threads : pc[t] = "idle"

\* C19. The quiescent state is the zero state: when every acquisition has
\* been released and no call is in progress, readerCount and readerWait
\* are 0, neither semaphore holds a permit and rw.w is free.
C19_QuiescentIsZero == Quiescent => (ZeroValue /\ w = 0)

\* The last call in progress is an Unlock() that has released its permits
\* to the readers that had queued behind it, all of which have since
\* read and released; its one remaining step, the release of rw.w, ends in
\* a quiescent state.
C19_Witness ==
    \E t \in Threads :
        /\ pc[t] = "UnlockW" /\ r[t] = NThreads - 1 /\ i[t] = r[t]
        /\ \A u \in Threads \ {t} : pc[u] = "idle"

----------------------------------------------------------------------------
\* The lock with as many readers as it supports.  Next to the threads of
\* the model a crowd of further readers holds the read lock from the start
\* and keeps it; the callers never register more than rwmutexMaxReaders
\* readers at a time.

\* Sizes of the crowd: none, or so many that all threads but one can
\* join it as readers.
CrowdSizes == {0, rwmutexMaxReaders - NThreads + 1}

InitCrowd ==
    /\ w = 0
    /\ writerSem = 0
    /\ readerSem = 0
    /\ readerCount \in CrowdSizes
    /\ readerWait = 0
    /\ pc = [t \in Threads |-> "idle"]
    /\ r = [t \in Threads |-> 0]
    /\ c = [t \in Threads |-> 0]
    /\ i = [t \in Threads |-> 0]
    /\ fatal = "none"
    /\ unmatched = {}
    /\ mustDrain = {}
    /\ late = {}
    /\ counter = 0
    /\ tmp = [t \in Threads |-> 0]
    /\ cs = [t \in Threads |-> "none"]
    /\ increments = 0
    /\ outer = {}

\* Number of readers readerCount counts, the writer's bias taken off.
RegisteredCount ==
    IF readerCount < 0 THEN readerCount + rwmutexMaxReaders ELSE readerCount

\* One more reader may register: with the calls that are about to
\* increment, the registered readers stay within rwmutexMaxReaders.
RoomForReader ==
    RegisteredCount
        + Cardinality({t \in Threads : pc[t] \in {"RLock", "TryRLock", "TryRLockCAS"}})
      < rwmutexMaxReaders

CrowdCall(t) ==
    \/ RoomForReader /\ CallRLock(t)
    \/ RoomForReader /\ CallTryRLock(t)
    \/ CallRUnlock(t)
    \/ CallLock(t) \/ CallTryLock(t) \/ CallUnlock(t)

NextCrowd == \E t \in Threads : CrowdCall(t) \/ Method(t)

SpecCrowd == InitCrowd /\ [][NextCrowd]_vars

\* The sum a + b lies in [MinInt32, MaxInt32].
Fits32(a, b) ==
    IF b >= 0 THEN a <= MaxInt32 - b ELSE a >= MinInt32 - b

\* C20. No 32-bit overflow: with at most rwmutexMaxReaders readers
\* registered and one writer announced, every addition and subtraction a
\* thread is about to make on readerCount, on readerWait or on a value read
\* from them (the increment and the decrement of the readers, c+1, r+1,
\* the subtraction and the addition of rwmutexMaxReaders in Lock() and
\* Unlock(), readerWait.Add(r)) has its result within the signed 32-bit
\* range, so no value of readerCount or readerWait is a wrapped one; the
\* one value TryLock() stores, -rwmutexMaxReaders, is in that range.
C20_NoOverflow ==
    /\ MinInt32 <= -rwmutexMaxReaders
    /\ \A t \in Threads :
          /\ pc[t] = "RLock" => Fits32(readerCount, 1)
          /\ pc[t] = "TryRLockCAS" => Fits32(c[t], 1)
          /\ pc[t] = "RUnlock" =>
                 (Fits32(readerCount, -1) /\ Fits32(readerCount - 1, 1))
          /\ pc[t] = "rUnlockSlow" => Fits32(readerWait, -1)
          /\ pc[t] = "LockAdd" =>
                 (/\ Fits32(readerCount, -rwmutexMaxReaders)
                  /\ Fits32(readerCount - rwmutexMaxReaders, rwmutexMaxReaders))
          /\ pc[t] = "LockWait" => Fits32(readerWait, r[t])
          /\ pc[t] = "Unlock" => Fits32(readerCount, rwmutexMaxReaders)

\* rwmutexMaxReaders readers are registered and a writer has announced
\* itself on top of them: it counted r = rwmutexMaxReaders and is parked.
C20_Witness ==
    \E t \in Threads :
        /\ pc[t] = "LockSem"
        /\ r[t] = rwmutexMaxReaders
        /\ readerCount = 0
        /\ readerWait = rwmutexMaxReaders

====
